---- MODULE Spec2Model ----
(***************************************************************************)
(* A model of schemInfoPy.py: process_directory's loop over a directory    *)
(* listing and the stages of analyze_schematic on every listed file.       *)
(*                                                                         *)
(* A decoded NBT tag is a record [kind, n, s, kids]:                       *)
(*   kind = "int"        n is the value                                    *)
(*   kind = "long"       s is the decimal form of a value too large for    *)
(*                       datetime (past the year 9999 as milliseconds)     *)
(*   kind = "string"     s is the text                                     *)
(*   kind = "bytearray"  n is the length (the bytes themselves are never   *)
(*   kind = "list"       n is the length  read by the program)             *)
(*   kind = "compound"   kids is the ordered sequence of <<key, tag>>      *)
(* Keys of a compound are unique, as the keys of a Python dict are.        *)
(***************************************************************************)
EXTENDS Integers, Sequences, FiniteSets, TLC

VARIABLES dir, files, i, results, json_written, pc,
          schematic, format_type, result, output

vars == <<dir, files, i, results, json_written, pc,
          schematic, format_type, result, output>>

(***************************************************************************)
(* Bounds of the model.                                                    *)
(***************************************************************************)
MaxFiles == 2
MaxDim == 2
MaxPalette == 2
MaxLen == 2

(***************************************************************************)
(* Constructors of tags.                                                   *)
(***************************************************************************)
TagInt(v) == [kind |-> "int", n |-> v, s |-> "", kids |-> <<>>]
\* a Long past the range of datetime, such as 4611686018427387904
TagLong(digits) == [kind |-> "long", n |-> 0, s |-> digits, kids |-> <<>>]
TagString(t) == [kind |-> "string", n |-> 0, s |-> t, kids |-> <<>>]
TagByteArray(len) == [kind |-> "bytearray", n |-> len, s |-> "", kids |-> <<>>]
TagList(len) == [kind |-> "list", n |-> len, s |-> "", kids |-> <<>>]
TagCompound(pairs) == [kind |-> "compound", n |-> 0, s |-> "", kids |-> pairs]

Absent == [kind |-> "absent", n |-> 0, s |-> "", kids |-> <<>>]

isinstance_dict(v) == v.kind = "compound"

isinstance_number(v) == v.kind \in {"int", "long"}

Keys(v) == [j \in 1..Len(v.kids) |-> v.kids[j][1]]

KeySet(v) == {v.kids[j][1] : j \in 1..Len(v.kids)}

\* len(v) of a tag that has a length
len(v) == IF v.kind = "compound" THEN Len(v.kids)
          ELSE IF v.kind = "string" THEN Len(v.s)
          ELSE v.n

hasattr_len(v) == v.kind \in {"compound", "string", "bytearray", "list"}

\* bool(v): the truth value Python gives the tag (the model takes the truth
\* value of ints, lists and compounds only)
Truthy(v) == IF v.kind = "int" THEN v.n # 0
             ELSE IF v.kind = "long" THEN TRUE
             ELSE len(v) # 0

\* key in obj, with the exceptions swallowed (an int raises TypeError, a list
\* or array holds no element equal to a key, and no string of the model holds
\* a key as a substring)
safe_check(obj, key) == /\ obj.kind = "compound"
                        /\ \E j \in 1..Len(obj.kids) : obj.kids[j][1] = key

\* obj[key] of a compound that holds key
Item(obj, key) ==
  obj.kids[CHOOSE j \in 1..Len(obj.kids) : obj.kids[j][1] = key][2]

\* obj.get(key, default) of a compound
Get(obj, key, default) == IF safe_check(obj, key) THEN Item(obj, key) ELSE default

(***************************************************************************)
(* str() of integers, computed digit by digit.                             *)
(***************************************************************************)
Digit(d) == CASE d = 0 -> "0" [] d = 1 -> "1" [] d = 2 -> "2" [] d = 3 -> "3"
              [] d = 4 -> "4" [] d = 5 -> "5" [] d = 6 -> "6" [] d = 7 -> "7"
              [] d = 8 -> "8" [] d = 9 -> "9"

RECURSIVE NatToStr(_)
NatToStr(v) == IF v < 10 THEN Digit(v) ELSE NatToStr(v \div 10) \o Digit(v % 10)

IntToStr(v) == IF v < 0 THEN "-" \o NatToStr(0 - v) ELSE NatToStr(v)

\* str(value): the decimal form of a number, the text of a string, the
\* entries of a compound with their values; of a list or array only its
\* kind and length are kept, the model holds no more of it
RECURSIVE safe_to_string(_)
RECURSIVE EntriesToString(_)
EntriesToString(kids) ==
  IF Len(kids) = 0 THEN ""
  ELSE kids[1][1] \o ": " \o safe_to_string(kids[1][2])
         \o (IF Len(kids) = 1 THEN "" ELSE ", " \o EntriesToString(Tail(kids)))

safe_to_string(value) ==
  CASE value.kind = "int" -> IntToStr(value.n)
    [] value.kind = "long" -> value.s
    [] value.kind = "string" -> value.s
    [] value.kind = "compound" -> "{" \o EntriesToString(value.kids) \o "}"
    [] OTHER -> "[" \o value.kind \o " of " \o IntToStr(value.n) \o "]"

\* a missing axis rendered as 0
AxisZeroDefault(obj, axis) ==
  IF safe_check(obj, axis) THEN safe_to_string(Item(obj, axis)) ELSE "0"

\* obj.get(axis, '?') rendered by safe_to_string; safe_to_string('?') = '?'
Axis(obj, axis) == IF safe_check(obj, axis) THEN safe_to_string(Item(obj, axis)) ELSE "?"

format_coordinates(obj) ==
  IF ~Truthy(obj) \/ ~isinstance_dict(obj) THEN "unknown"
  ELSE Axis(obj, "x") \o " x " \o Axis(obj, "y") \o " x " \o Axis(obj, "z")

\* the f-string of lines 144 and 150: size.get(axis, '?') of a compound
InlineCoordinates(obj) ==
  Axis(obj, "x") \o " x " \o Axis(obj, "y") \o " x " \o Axis(obj, "z")

(***************************************************************************)
(* datetime.fromtimestamp(ms / 1000).strftime('%Y-%m-%d %H:%M:%S') in UTC, *)
(* for the millisecond values an Int of the model holds (all of them fall  *)
(* in January 1970).                                                       *)
(***************************************************************************)
TwoDigits(v) == IF v < 10 THEN "0" \o NatToStr(v) ELSE NatToStr(v)

strftime(ms) ==
  LET secs == ms \div 1000
  IN "1970-01-" \o TwoDigits(1 + secs \div 86400) \o " "
       \o TwoDigits((secs % 86400) \div 3600) \o ":"
       \o TwoDigits((secs % 3600) \div 60) \o ":"
       \o TwoDigits(secs % 60)

\* datetime.fromtimestamp raises on a value past its range (line 35)
DateFormattingFails(timestamp) == timestamp.kind = "long"

format_timestamp(timestamp) ==
  IF isinstance_number(timestamp)
  THEN IF DateFormattingFails(timestamp)
       THEN timestamp.s \o " (error formatting date)"
       ELSE IntToStr(timestamp.n) \o " (" \o strftime(timestamp.n) \o ")"
  ELSE safe_to_string(timestamp)

(***************************************************************************)
(* The Result of one file: a dict, modelled as a record with the set of    *)
(* the keys that have been assigned (present) and one field per key.       *)
(***************************************************************************)
NoDimensions == [width |-> Absent, height |-> Absent, length |-> Absent, total_volume |-> 0]

NoBlockStats == [shape |-> "", total_block_types |-> 0, blocks |-> <<>>,
                 total_blocks |-> ""]

NewResult(name) ==
  [file_name |-> name,
   present |-> {"file_name", "file_path", "file_size", "analysis_time"},
   compression |-> "", decompressed_size |-> 0, error |-> "", format |-> "",
   regions |-> <<>>, dimensions |-> NoDimensions, block_stats |-> NoBlockStats,
   block_data_size |-> 0, tile_entities_count |-> 0, entities_count |-> 0,
   metadata |-> <<>>, worldedit_metadata |-> <<>>, additional_nbt_keys |-> <<>>]

\* a value stored in metadata / worldedit_metadata: a string, or {"keys": [...]}
RenderedString(t) == [tag |-> "str", str |-> t, keys |-> <<>>]
RenderedKeys(ks) == [tag |-> "keys", str |-> "", keys |-> ks]

\* the value recorded under key in a rendered mapping that holds it
Lookup(m, key) == m[CHOOSE j \in 1..Len(m) : m[j][1] = key][2]

Names(m) == {m[j][1] : j \in 1..Len(m)}

(***************************************************************************)
(* Format detection, lines 108-128.                                        *)
(***************************************************************************)
\* the alternate probe tried before the nested one
detect_format_alternate_first(sch) ==
  IF safe_check(sch, "Palette") /\ safe_check(sch, "BlockData")
    THEN "modern_worldedit"
  ELSE IF safe_check(sch, "BlockData") \/ safe_check(sch, "blocks")
    THEN "modern_alternate"
  ELSE IF /\ safe_check(sch, "Blocks")
          /\ isinstance_dict(Item(sch, "Blocks"))
          /\ safe_check(Item(sch, "Blocks"), "Palette")
    THEN "modern_worldedit_nested"
  ELSE IF safe_check(sch, "Blocks") /\ safe_check(sch, "Data")
    THEN "classic_worldedit"
  ELSE IF safe_check(sch, "Regions")
    THEN "litematica"
  ELSE "unknown"

detect_format(sch) ==
  IF safe_check(sch, "Palette") /\ safe_check(sch, "BlockData")
    THEN "modern_worldedit"
  ELSE IF /\ safe_check(sch, "Blocks")
          /\ isinstance_dict(Item(sch, "Blocks"))
          /\ safe_check(Item(sch, "Blocks"), "Palette")
    THEN "modern_worldedit_nested"
  ELSE IF safe_check(sch, "BlockData") \/ safe_check(sch, "blocks")
    THEN "modern_alternate"
  ELSE IF safe_check(sch, "Blocks") /\ safe_check(sch, "Data")
    THEN "classic_worldedit"
  ELSE IF safe_check(sch, "Regions")
    THEN "litematica"
  ELSE "unknown"

(***************************************************************************)
(* Dimensions of the formats other than litematica, lines 170-185.         *)
(* The dimension tags of the model are ints and compounds: the product of  *)
(* three truthy values raises TypeError unless all three are ints.         *)
(***************************************************************************)
Dimension(sch, upper, lower) == Get(sch, upper, Get(sch, lower, TagInt(0)))

total_volume(width, height, length) ==
  IF Truthy(width) /\ Truthy(height) /\ Truthy(length)
  THEN width.n * height.n * length.n
  ELSE 0

VolumeRaises(width, height, length) ==
  /\ Truthy(width) /\ Truthy(height) /\ Truthy(length)
  /\ \E d \in {width, height, length} : d.kind # "int"

\* the stage's outcome: whether it raised, the Result and the report lines
ExtractDimensions(r, sch) ==
  IF ~isinstance_dict(sch)
  THEN [raised |-> TRUE, result |-> r, lines |-> <<>>]
  ELSE
    LET width == Dimension(sch, "Width", "width")
        height == Dimension(sch, "Height", "height")
        length == Dimension(sch, "Length", "length")
        dims == "Dimensions: " \o safe_to_string(width) \o " x "
                  \o safe_to_string(height) \o " x " \o safe_to_string(length)
    IN IF VolumeRaises(width, height, length)
       THEN [raised |-> TRUE, result |-> r, lines |-> <<dims>>]
       ELSE [raised |-> FALSE,
             result |-> [r EXCEPT
                !.present = @ \cup {"dimensions"},
                !.dimensions = [width |-> width, height |-> height, length |-> length,
                                total_volume |-> total_volume(width, height, length)]],
             lines |-> <<dims, "Total volume: "
                  \o IntToStr(total_volume(width, height, length)) \o " blocks">>]

(***************************************************************************)
(* Regions of a litematica file, lines 131-168.                            *)
(***************************************************************************)
NoRegionInfo == [present |-> {}, size |-> "", position |-> "",
                 block_entities_count |-> 0, entities_count |-> 0]

\* size.get / pos.get raise AttributeError on a tag that is no compound;
\* len() raises TypeError on a truthy tag without a length
RegionRaises(region) ==
  \/ safe_check(region, "Size") /\ ~isinstance_dict(Item(region, "Size"))
  \/ safe_check(region, "Position") /\ ~isinstance_dict(Item(region, "Position"))
  \/ \E k \in {"BlockEntities", "Entities"} :
        /\ safe_check(region, k)
        /\ Truthy(Item(region, k))
        /\ ~hasattr_len(Item(region, k))

\* the count recorded whenever the key is present, also for an empty list
CountRecordedWhenPresent(region, key) == safe_check(region, key)

CountRecorded(region, key) == safe_check(region, key) /\ Truthy(Item(region, key))

region_info(region) ==
  [present |->
      (IF safe_check(region, "Size") THEN {"size"} ELSE {})
      \cup (IF safe_check(region, "Position") THEN {"position"} ELSE {})
      \cup (IF CountRecorded(region, "BlockEntities") THEN {"block_entities_count"} ELSE {})
      \cup (IF CountRecorded(region, "Entities") THEN {"entities_count"} ELSE {}),
   size |-> IF safe_check(region, "Size")
            THEN InlineCoordinates(Item(region, "Size")) ELSE "",
   position |-> IF safe_check(region, "Position")
                THEN InlineCoordinates(Item(region, "Position")) ELSE "",
   block_entities_count |-> IF CountRecorded(region, "BlockEntities")
                            THEN len(Item(region, "BlockEntities")) ELSE 0,
   entities_count |-> IF CountRecorded(region, "Entities")
                      THEN len(Item(region, "Entities")) ELSE 0]

\* the loop of line 137 over regions.items() from entry j on; acc is
\* result["regions"] so far
RECURSIVE RegionLoop(_, _, _)
RegionLoop(kids, j, acc) ==
  IF j > Len(kids) THEN [raised |-> FALSE, regions |-> acc]
  ELSE IF RegionRaises(kids[j][2]) THEN [raised |-> TRUE, regions |-> acc]
  ELSE RegionLoop(kids, j + 1, Append(acc, <<kids[j][1], region_info(kids[j][2])>>))

ExtractRegions(r, sch) ==
  LET regions == Get(sch, "Regions", TagCompound(<<>>))
      r0 == [r EXCEPT !.present = @ \cup {"regions"}]
  IN IF ~isinstance_dict(regions)
     THEN [raised |-> TRUE, result |-> r0, lines |-> <<"Regions:">>]
     ELSE LET loop == RegionLoop(regions.kids, 1, <<>>)
          IN [raised |-> loop.raised,
              result |-> [r0 EXCEPT !.regions = loop.regions],
              lines |-> <<"Regions:">>
                  \o [j \in 1..(Len(loop.regions) + (IF loop.raised THEN 1 ELSE 0)) |->
                        "  - " \o regions.kids[j][1] \o ":"]]

(***************************************************************************)
(* Block statistics, lines 187-260.                                        *)
(***************************************************************************)
startswith_modern_worldedit(fmt) == fmt \in {"modern_worldedit", "modern_worldedit_nested"}

\* the compound the block statistics read the palette from
PaletteOf(sch) == Item(sch, "Palette")

HasPalette(sch) == safe_check(sch, "Palette")

\* for block_name, block_id in palette.items(): AttributeError on a tag that
\* is no compound, caught at line 201 with nothing listed
block_types(palette) ==
  IF isinstance_dict(palette)
  THEN [j \in 1..Len(palette.kids) |-> [name |-> palette.kids[j][1], id |-> palette.kids[j][2]]]
  ELSE <<>>

\* lines 221-231: a numpy array (byte array) has a shape and its size is
\* its element count; anything else with a length gives len(); else "unknown"
total_blocks(blocks) ==
  IF blocks.kind = "bytearray" THEN IntToStr(blocks.n)
  ELSE IF hasattr_len(blocks) THEN IntToStr(len(blocks))
  ELSE "unknown"

\* the optional count of lines 239-257: recorded when the key is present
\* and its tag has a length
WithCount(r, sch, key, field) ==
  IF safe_check(sch, key) /\ hasattr_len(Item(sch, key))
  THEN [r EXCEPT !.present = @ \cup {field}, ![field] = len(Item(sch, key))]
  ELSE r

ExtractBlockStats(r, sch, fmt) ==
  IF startswith_modern_worldedit(fmt)
  THEN IF HasPalette(sch)
       THEN LET palette == PaletteOf(sch)
            IN IF ~hasattr_len(palette)
               THEN [raised |-> TRUE, result |-> r, lines |-> <<>>]
               ELSE [raised |-> FALSE,
                     result |-> WithCount(
                        [r EXCEPT !.present = @ \cup {"block_stats"},
                                  !.block_stats = [shape |-> "palette",
                                      total_block_types |-> len(palette),
                                      blocks |-> block_types(palette),
                                      total_blocks |-> ""]],
                        sch, "BlockData", "block_data_size"),
                     lines |-> <<"Block types: " \o IntToStr(len(palette)), "All block types:">>
                        \o [j \in 1..Len(block_types(palette)) |->
                              "  - " \o block_types(palette)[j].name \o " (ID: "
                                \o safe_to_string(block_types(palette)[j].id) \o ")"]
                        \o (IF isinstance_dict(palette) THEN <<>>
                            ELSE <<"Error listing block types">>)]
       ELSE [raised |-> FALSE, result |-> r, lines |-> <<>>]
  ELSE IF fmt = "classic_worldedit"
  THEN IF safe_check(sch, "Blocks")
       THEN [raised |-> FALSE,
             result |-> WithCount(WithCount(WithCount(
                  [r EXCEPT !.present = @ \cup {"block_stats"},
                            !.block_stats = [shape |-> "classic", total_block_types |-> 0,
                                blocks |-> <<>>,
                                total_blocks |-> total_blocks(Item(sch, "Blocks"))]],
                  sch, "Data", "block_data_size"),
                  sch, "TileEntities", "tile_entities_count"),
                  sch, "Entities", "entities_count"),
             lines |-> <<"Block data available (classic format)",
                         "Total blocks: " \o total_blocks(Item(sch, "Blocks"))>>]
       ELSE [raised |-> FALSE, result |-> r,
             lines |-> <<"Block data available (classic format)">>]
  ELSE IF fmt = "litematica"
  THEN [raised |-> FALSE, result |-> r, lines |-> <<"Block data available in regions">>]
  ELSE [raised |-> FALSE, result |-> r, lines |-> <<>>]

(***************************************************************************)
(* Metadata, lines 262-293, and WorldEdit metadata, lines 295-316.         *)
(***************************************************************************)
\* lines 283-290 and 306-313: the direct key names of a compound
complex_object(value) == RenderedKeys(Keys(value))

\* the branch of lines 278-282
IsTimestampEntry(key, value) == key \in {"TimeCreated", "TimeModified"}

\* the timestamp branch taken for numeric values only
render_metadata_numeric_timestamps(key, value) ==
  IF key = "EnclosingSize" /\ isinstance_dict(value)
    THEN RenderedString(format_coordinates(value))
  ELSE IF IsTimestampEntry(key, value) /\ isinstance_number(value)
    THEN RenderedString(format_timestamp(value))
  ELSE IF isinstance_dict(value)
    THEN complex_object(value)
  ELSE RenderedString(safe_to_string(value))

\* what result["metadata"][key] is set to (key is not WorldEdit)
render_metadata(key, value) ==
  IF key = "EnclosingSize" /\ isinstance_dict(value)
    THEN RenderedString(format_coordinates(value))
  ELSE IF IsTimestampEntry(key, value)
    THEN RenderedString(format_timestamp(value))
  ELSE IF isinstance_dict(value)
    THEN complex_object(value)
  ELSE RenderedString(safe_to_string(value))

\* what result["worldedit_metadata"][key] is set to
render_worldedit(key, value) ==
  IF key = "Origin" /\ isinstance_dict(value)
    THEN RenderedString(format_coordinates(value))
  ELSE IF isinstance_dict(value)
    THEN complex_object(value)
  ELSE RenderedString(safe_to_string(value))

\* line 270: the WorldEdit entry is left to the second pass
SkippedInMetadata(key) == key = "WorldEdit"

RECURSIVE MetadataLoop(_, _, _)
MetadataLoop(kids, j, acc) ==
  IF j > Len(kids) THEN acc
  ELSE IF SkippedInMetadata(kids[j][1]) THEN MetadataLoop(kids, j + 1, acc)
  ELSE MetadataLoop(kids, j + 1,
         Append(acc, <<kids[j][1], render_metadata(kids[j][1], kids[j][2])>>))

RenderedLine(entry) ==
  "  " \o entry[1] \o ": "
    \o (IF entry[2].tag = "keys" THEN "[complex object]" ELSE entry[2].str)

ExtractMetadata(r, sch) ==
  IF ~safe_check(sch, "Metadata")
  THEN [raised |-> FALSE, result |-> r, lines |-> <<>>]
  ELSE LET metadata == Item(sch, "Metadata")
           r0 == [r EXCEPT !.present = @ \cup {"metadata"}]
       IN IF ~isinstance_dict(metadata)
          THEN [raised |-> TRUE, result |-> r0, lines |-> <<"Metadata:">>]
          ELSE LET m == MetadataLoop(metadata.kids, 1, <<>>)
               IN [raised |-> FALSE,
                   result |-> [r0 EXCEPT !.metadata = m],
                   lines |-> <<"Metadata:">> \o [j \in 1..Len(m) |-> RenderedLine(m[j])]]

ExtractWorldEditMetadata(r, sch) ==
  IF ~(safe_check(sch, "Metadata") /\ safe_check(Item(sch, "Metadata"), "WorldEdit"))
  THEN [raised |-> FALSE, result |-> r, lines |-> <<>>]
  ELSE LET we_metadata == Item(Item(sch, "Metadata"), "WorldEdit")
           r0 == [r EXCEPT !.present = @ \cup {"worldedit_metadata"}]
       IN IF ~isinstance_dict(we_metadata)
          THEN [raised |-> TRUE, result |-> r0, lines |-> <<"WorldEdit Metadata:">>]
          ELSE LET m == [j \in 1..Len(we_metadata.kids) |->
                           <<we_metadata.kids[j][1],
                             render_worldedit(we_metadata.kids[j][1], we_metadata.kids[j][2])>>]
               IN [raised |-> FALSE,
                   result |-> [r0 EXCEPT !.worldedit_metadata = m],
                   lines |-> <<"WorldEdit Metadata:">>
                                \o [j \in 1..Len(m) |-> RenderedLine(m[j])]]

(***************************************************************************)
(* Residual keys, lines 318-337.                                           *)
(***************************************************************************)
\* the dimension keys taken for reserved as well
ReservedKeysWithDimensions ==
  {"Palette", "BlockData", "Blocks", "Data", "Regions", "Metadata",
   "Width", "Height", "Length", "width", "height", "length"}

ReservedKeys == {"Palette", "BlockData", "Blocks", "Data", "Regions", "Metadata"}

RECURSIVE additional_keys(_, _)
additional_keys(ks, reserved) ==
  IF Len(ks) = 0 THEN <<>>
  ELSE IF Head(ks) \in reserved THEN additional_keys(Tail(ks), reserved)
  ELSE <<Head(ks)>> \o additional_keys(Tail(ks), reserved)

ReportResiduals(r, sch) ==
  LET extra == additional_keys(Keys(sch), ReservedKeys)
  IN [raised |-> FALSE,
      result |-> IF Len(extra) = 0 THEN r
                 ELSE [r EXCEPT !.present = @ \cup {"additional_nbt_keys"},
                                !.additional_nbt_keys = extra],
      lines |-> <<"Additional NBT Data:">>
          \o (IF Len(extra) = 0 THEN <<"  No additional NBT data found">>
              ELSE [j \in 1..Len(extra) |-> "  " \o extra[j] \o ": "
                      \o (IF isinstance_dict(Item(sch, extra[j])) THEN "[complex object]"
                          ELSE safe_to_string(Item(sch, extra[j])))])
          \o <<"=== End of analysis ===">>]

(***************************************************************************)
(* The files of the directory. head is the first bytes of the file (at     *)
(* most two are read), gunzip_ok whether gzip.decompress succeeds on it,   *)
(* parse_ok whether nbtlib parses the (decompressed) bytes, and tree what  *)
(* it parses them to. stat_ok: os.path.getsize succeeds (the file is still *)
(* there); readable: open() succeeds; encodable: the report of the file    *)
(* can be encoded (its name and strings hold no lone surrogate).           *)
(***************************************************************************)
GzipMagic0 == 31
GzipMagic1 == 139

File(ext, head, gunzip_ok, parse_ok, tree) ==
  [ext |-> ext, is_file |-> TRUE, stat_ok |-> TRUE, readable |-> TRUE, encodable |-> TRUE,
   head |-> head, gunzip_ok |-> gunzip_ok, parse_ok |-> parse_ok, tree |-> tree]

RawFile(ext, tree) == File(ext, <<10, 0>>, FALSE, TRUE, tree)

GzipFile(ext, tree) == File(ext, <<GzipMagic0, GzipMagic1>>, TRUE, TRUE, tree)

\* f.suffix.lower() of the suffixes of the model
Lower(ext) == CASE ext = ".SCHEM" -> ".schem"
                [] ext = ".Litematic" -> ".litematic"
                [] OTHER -> ext

supported_extensions == {".schem", ".schematic", ".litematic"}

\* line 364: the files of the listing with a supported suffix, in order
RECURSIVE supported_files(_, _)
supported_files(listing, j) ==
  IF j > Len(listing) THEN <<>>
  ELSE IF listing[j].is_file /\ Lower(listing[j].ext) \in supported_extensions
       THEN <<j>> \o supported_files(listing, j + 1)
       ELSE supported_files(listing, j + 1)

(***************************************************************************)
(* The trees the model analyses.                                           *)
(***************************************************************************)
Opt(key, values) == {<<>>} \cup {<< <<key, v>> >> : v \in values}

Reverse(q) == [j \in 1..Len(q) |-> q[Len(q) + 1 - j]]

PaletteNames == <<"minecraft:stone", "minecraft:air", "minecraft:dirt", "minecraft:sand">>

\* a palette of k entries, ids from first on
PaletteOfSize(k, first) ==
  TagCompound([j \in 1..k |-> <<PaletteNames[j], TagInt(first + j - 1)>>])

Coordinates(x, y, z) ==
  TagCompound(<< <<"x", TagInt(x)>>, <<"y", TagInt(y)>>, <<"z", TagInt(z)>> >>)

OneRegion ==
  TagCompound(<< <<"Main", TagCompound(<< <<"Size", Coordinates(4, 4, 4)>> >>)>> >>)

SmallMetadata == TagCompound(<< <<"Name", TagString("house")>> >>)

DetectTrees ==
  LET trees ==
        {a \o b \o c \o d \o e \o f \o g \o h :
           a \in Opt("Palette", {PaletteOfSize(MaxPalette, 0)}),
           b \in Opt("BlockData", {TagByteArray(MaxLen)}),
           c \in Opt("Blocks", {TagCompound(<< <<"Palette", PaletteOfSize(1, 0)>>,
                                             <<"Data", TagByteArray(MaxLen)>> >>),
                                TagCompound(<< <<"Data", TagByteArray(MaxLen)>> >>),
                                TagByteArray(MaxLen)}),
           d \in Opt("blocks", {TagList(1)}),
           e \in Opt("Data", {TagByteArray(MaxLen)}),
           f \in Opt("Regions", {OneRegion}),
           g \in Opt("Metadata", {SmallMetadata}),
           h \in Opt("Version", {TagInt(2)})}
  IN {TagCompound(q) : q \in trees} \cup {TagCompound(Reverse(q)) : q \in trees}

DimensionTrees ==
  {TagCompound(a \o b \o c \o d \o e \o f) :
     a \in Opt("Width", {TagInt(v) : v \in -1..MaxDim}),
     b \in Opt("width", {TagInt(MaxDim)}),
     c \in Opt("Height", {TagInt(v) : v \in -1..MaxDim}),
     d \in Opt("height", {TagInt(MaxDim)}),
     e \in Opt("Length", {TagInt(v) : v \in -1..MaxDim}),
     f \in Opt("length", {TagInt(MaxDim)})}
  \cup
  {TagCompound(<< <<"Width", w>>, <<"Height", TagInt(1)>>, <<"Length", TagInt(l)>> >>) :
     w \in {TagCompound(<<>>), Coordinates(1, 1, 1)}, l \in {0, 1}}

ModernTrees ==
  {TagCompound(<< <<"Version", TagInt(2)>>, <<"Palette", p>>, <<"BlockData", b>>,
                  <<"Width", TagInt(1)>>, <<"Height", TagInt(1)>>,
                  <<"Length", TagInt(MaxLen)>> >>) :
     p \in {PaletteOfSize(k, 0) : k \in 0..MaxPalette} \cup {TagList(1), TagInt(3)},
     b \in {TagByteArray(k) : k \in 0..MaxLen} \cup {TagInt(7)}}
  \cup
  {TagCompound(a \o << <<"Blocks", TagCompound(<< <<"Palette", p>> >> \o b)>> >>) :
     a \in Opt("Palette", {PaletteOfSize(1, 5), TagInt(3)}),
     p \in {PaletteOfSize(k, 0) : k \in 0..MaxPalette},
     b \in Opt("Data", {TagByteArray(MaxLen)})}

ClassicTrees ==
  {TagCompound(<< <<"Blocks", b>>, <<"Data", d>> >> \o t \o e) :
     b \in {TagByteArray(k) : k \in 0..MaxLen}
             \cup {TagList(MaxLen), TagInt(1), TagCompound(<< <<"Data", TagInt(0)>> >>)},
     d \in {TagByteArray(MaxLen), TagInt(0)},
     t \in Opt("TileEntities", {TagList(0), TagList(1)}),
     e \in Opt("Entities", {TagList(MaxLen), TagInt(3)})}

RegionTags ==
  {TagCompound(a \o b \o c \o d) :
     a \in Opt("Size", {Coordinates(4, 4, 4),
                        TagCompound(<< <<"x", TagInt(1)>>, <<"z", TagInt(3)>> >>),
                        TagInt(4)}),
     b \in Opt("Position", {Coordinates(0, 0, 0)}),
     c \in Opt("BlockEntities", {TagList(k) : k \in 0..MaxLen} \cup {TagInt(1)}),
     d \in Opt("Entities", {TagList(0), TagList(MaxLen)})}

SecondRegionTags ==
  {TagCompound(<<>>),
   TagCompound(<< <<"Size", Coordinates(1, 2, 3)>>, <<"BlockEntities", TagList(1)>> >>),
   TagCompound(<< <<"Position", TagString("origin")>> >>),
   TagInt(0)}

RegionTrees ==
  {TagCompound(<< <<"Regions", r>>, <<"Version", TagInt(5)>> >>) :
     r \in {TagCompound(<<>>), TagList(1)}
           \cup {TagCompound(<< <<"Main", a>> >>) : a \in RegionTags}
           \cup {TagCompound(<< <<"Main", a>>, <<"Sub", b>> >>) :
                   a \in RegionTags, b \in SecondRegionTags}}

EnclosingSizes ==
  {TagCompound(a \o b \o c) : a \in Opt("x", {TagInt(1)}), b \in Opt("y", {TagInt(2)}),
                              c \in Opt("z", {TagInt(3)})}
  \cup {TagCompound(<< <<"w", TagInt(1)>> >>), TagInt(5)}

WorldEdits ==
  {TagCompound(<< <<"Origin", Coordinates(0, 64, 0)>>, <<"Version", TagString("7.2")>>,
                  <<"Platforms", TagCompound(<< <<"bukkit", TagInt(1)>> >>)>> >>),
   TagCompound(<< <<"Origin", TagCompound(<<>>)>> >>),
   TagInt(1)}

MetadataTrees ==
  {TagCompound(<< <<"Metadata", TagCompound(a \o b \o c \o d \o e \o f)>>,
                  <<"Version", TagInt(2)>> >>) :
     a \in Opt("EnclosingSize", EnclosingSizes),
     b \in Opt("TimeCreated", {TagInt(1700000), TagLong("4611686018427387904"),
                               TagString("yesterday"),
                               TagCompound(<< <<"seconds", TagInt(1700)>> >>)}),
     c \in Opt("TimeModified", {TagInt(0)}),
     d \in Opt("Name", {TagString("house")}),
     e \in Opt("Extra", {TagCompound(<< <<"p", TagInt(1)>>, <<"q", TagInt(2)>> >>)}),
     f \in Opt("WorldEdit", WorldEdits)}
  \cup {TagCompound(<< <<"Metadata", TagInt(1)>> >>)}

\* trees whose root holds the schematic under a Schematic key (line 106)
WrappedTrees ==
  {TagCompound(<< <<"Schematic", s>> >>) :
     s \in {TagInt(1),
            TagCompound(<<>>),
            TagCompound(<< <<"Palette", PaletteOfSize(MaxPalette, 0)>>,
                           <<"BlockData", TagByteArray(MaxLen)>>,
                           <<"Width", TagInt(1)>> >>)}}

Trees == DetectTrees \cup DimensionTrees \cup ModernTrees \cup ClassicTrees
           \cup RegionTrees \cup MetadataTrees \cup WrappedTrees

SmallTree ==
  TagCompound(<< <<"Palette", PaletteOfSize(1, 0)>>, <<"BlockData", TagByteArray(1)>> >>)

\* the kinds of directory entry a listing of several entries is made of
Entries ==
  {RawFile(".schem", SmallTree),
   GzipFile(".Litematic", TagCompound(<< <<"Regions", OneRegion>> >>)),
   File(".schem", <<GzipMagic0, GzipMagic1>>, FALSE, FALSE, Absent),
   File(".schematic", <<GzipMagic0, GzipMagic1>>, TRUE, FALSE, Absent),
   File(".schematic", <<3, 0>>, FALSE, FALSE, Absent),
   File(".schem", <<>>, FALSE, FALSE, Absent),
   File(".schem", <<GzipMagic0>>, FALSE, FALSE, Absent),
   [RawFile(".schem", SmallTree) EXCEPT !.readable = FALSE],
   [RawFile(".schem", SmallTree) EXCEPT !.stat_ok = FALSE],
   [RawFile(".SCHEM", SmallTree) EXCEPT !.encodable = FALSE],
   [RawFile(".schem", SmallTree) EXCEPT !.is_file = FALSE],
   RawFile(".txt", SmallTree)}

RECURSIVE Listings(_)
Listings(k) ==
  IF k = 0 THEN {<<>>}
  ELSE Listings(k - 1) \cup {Append(q, e) : q \in Listings(k - 1), e \in Entries}

(***************************************************************************)
(* The state after construction: process_directory is about to list dir.   *)
(* A listing is either one file holding any tree of the model, or up to    *)
(* MaxFiles entries of the kinds above.                                    *)
(***************************************************************************)
Init ==
  /\ dir \in {<<RawFile(".schem", tree)>> : tree \in Trees} \cup Listings(MaxFiles)
  /\ files = <<>>
  /\ i = 1
  /\ results = <<>>
  /\ json_written = FALSE
  /\ pc = "list"
  /\ schematic = Absent
  /\ format_type = ""
  /\ result = NewResult(0)
  /\ output = <<>>

current == dir[files[i]]

\* the except clause without result["error"] = error_msg
ExceptWithoutError(r) == r

\* lines 341-346: the except clause of analyze_schematic
Except(r) == [r EXCEPT !.present = @ \cup {"error"}, !.error = "Error analyzing file"]

\* a stage of the try block ends: on to the next stage, or to the except
\* clause and then to the log
Stage(outcome, next) ==
  IF outcome.raised
  THEN /\ result' = Except(outcome.result)
       /\ output' = output \o outcome.lines \o <<"Error analyzing file">>
       /\ pc' = "write_log"
  ELSE /\ result' = outcome.result
       /\ output' = output \o outcome.lines
       /\ pc' = next

(***************************************************************************)
(* process_directory, lines 355-387.                                       *)
(***************************************************************************)
\* lines 363-372
ListDirectory ==
  /\ pc = "list"
  /\ files' = supported_files(dir, 1)
  /\ pc' = IF Len(supported_files(dir, 1)) = 0 THEN "done" ELSE "loop"
  /\ UNCHANGED <<dir, i, results, json_written, schematic, format_type, result, output>>

\* lines 59-69 of analyze_schematic, called at line 374: os.path.getsize
\* raises outside the try block, into the except clause of line 385
AnalyzeStart ==
  /\ pc = "loop"
  /\ i <= Len(files)
  /\ IF current.stat_ok
     THEN /\ result' = NewResult(files[i])
          /\ output' = <<"=== Analyzing file ===", "File path", "File size">>
          /\ pc' = "load"
     ELSE /\ pc' = "failed"
          /\ UNCHANGED <<result, output>>
  /\ schematic' = Absent
  /\ format_type' = ""
  /\ UNCHANGED <<dir, files, i, results, json_written>>

\* line 77: raw_data[0] == 0x1f and raw_data[1] == 0x8b
IndexError(head) == Len(head) = 0 \/ (head[1] = GzipMagic0 /\ Len(head) < 2)

is_gzipped(head) == head[1] = GzipMagic0 /\ head[2] = GzipMagic1

\* lines 71-103: how reading, decompressing and parsing the file ends
LoadOutcomeIgnoringParseError(f) ==
  IF ~f.readable \/ IndexError(f.head) THEN "raise"
  ELSE IF is_gzipped(f.head) /\ ~f.gunzip_ok THEN "decompress_error"
  ELSE "ok"

LoadOutcome(f) ==
  IF ~f.readable \/ IndexError(f.head) THEN "raise"
  ELSE IF is_gzipped(f.head) /\ ~f.gunzip_ok THEN "decompress_error"
  ELSE IF ~f.parse_ok THEN "parse_error"
  ELSE "ok"

\* lines 71-106: read, decompress, parse, take the root
Load ==
  /\ pc = "load"
  /\ LET f == current
         how == LoadOutcome(f)
     IN IF how = "raise"
        THEN /\ result' = Except(result)
             /\ output' = Append(output, "Error analyzing file")
             /\ pc' = "write_log"
             /\ UNCHANGED schematic
        ELSE LET gz == is_gzipped(f.head)
                 r1 == [result EXCEPT
                          !.present = @ \cup {"compression"},
                          !.compression = IF gz THEN "gzipped" ELSE "not gzipped"]
                 o1 == Append(output, "File compression: " \o r1.compression)
                 r2 == IF gz THEN [r1 EXCEPT !.present = @ \cup {"decompressed_size"}]
                       ELSE r1
                 o2 == IF gz THEN Append(o1, "Decompressed size") ELSE o1
             IN IF how = "decompress_error"
                THEN /\ result' = [r1 EXCEPT !.present = @ \cup {"error"},
                                             !.error = "Error decompressing file"]
                     /\ output' = Append(o1, "Error decompressing file")
                     /\ pc' = "returned"
                     /\ UNCHANGED schematic
                ELSE IF how = "parse_error"
                THEN /\ result' = [r2 EXCEPT !.present = @ \cup {"error"},
                                             !.error = "Error parsing NBT data"]
                     /\ output' = Append(o2, "Error parsing NBT data")
                     /\ pc' = "returned"
                     /\ UNCHANGED schematic
                ELSE /\ result' = r2
                     /\ output' = Append(o2, "NBT format")
                     /\ schematic' = Get(f.tree, "Schematic", f.tree)
                     /\ pc' = "detect"
  /\ UNCHANGED <<dir, files, i, results, json_written, format_type>>

(***************************************************************************)
(* The extraction stages of analyze_schematic, lines 108-339.              *)
(***************************************************************************)
Detect ==
  /\ pc = "detect"
  /\ format_type' = detect_format(schematic)
  /\ result' = [result EXCEPT !.present = @ \cup {"format"},
                              !.format = detect_format(schematic)]
  /\ output' = Append(output, "Format: " \o detect_format(schematic))
  /\ pc' = "dimensions"
  /\ UNCHANGED <<dir, files, i, results, json_written, schematic>>

ExtractDimensionsStage ==
  /\ pc = "dimensions"
  /\ Stage(IF format_type = "litematica" THEN ExtractRegions(result, schematic)
           ELSE ExtractDimensions(result, schematic), "block_stats")
  /\ UNCHANGED <<dir, files, i, results, json_written, schematic, format_type>>

ExtractBlockStatsStage ==
  /\ pc = "block_stats"
  /\ Stage(ExtractBlockStats(result, schematic, format_type), "metadata")
  /\ UNCHANGED <<dir, files, i, results, json_written, schematic, format_type>>

ExtractMetadataStage ==
  /\ pc = "metadata"
  /\ Stage(ExtractMetadata(result, schematic), "worldedit_metadata")
  /\ UNCHANGED <<dir, files, i, results, json_written, schematic, format_type>>

ExtractWorldEditMetadataStage ==
  /\ pc = "worldedit_metadata"
  /\ Stage(ExtractWorldEditMetadata(result, schematic), "residuals")
  /\ UNCHANGED <<dir, files, i, results, json_written, schematic, format_type>>

ReportResidualsStage ==
  /\ pc = "residuals"
  /\ Stage(ReportResiduals(result, schematic), "write_log")
  /\ UNCHANGED <<dir, files, i, results, json_written, schematic, format_type>>

\* lines 348-353: the report is appended to the log, outside the try block
WriteLog ==
  /\ pc = "write_log"
  /\ pc' = IF current.encodable THEN "returned" ELSE "failed"
  /\ UNCHANGED <<dir, files, i, results, json_written, schematic, format_type,
                 result, output>>

\* lines 374-377: the report is printed and the Result appended
Collect ==
  /\ pc = "returned"
  /\ IF current.encodable
     THEN /\ results' = Append(results, result)
          /\ i' = i + 1
          /\ pc' = "loop"
     ELSE /\ pc' = "failed"
          /\ UNCHANGED <<results, i>>
  /\ UNCHANGED <<dir, files, json_written, schematic, format_type, result, output>>

\* lines 379-383: after the loop the results are written as JSON
WriteJson ==
  /\ pc = "loop"
  /\ i > Len(files)
  /\ json_written' = TRUE
  /\ pc' = "done"
  /\ UNCHANGED <<dir, files, i, results, schematic, format_type, result, output>>

Next ==
  \/ ListDirectory
  \/ AnalyzeStart
  \/ Load
  \/ Detect
  \/ ExtractDimensionsStage
  \/ ExtractBlockStatsStage
  \/ ExtractMetadataStage
  \/ ExtractWorldEditMetadataStage
  \/ ReportResidualsStage
  \/ WriteLog
  \/ Collect
  \/ WriteJson

Spec == Init /\ [][Next]_vars

\* the program is one sequential thread: a step that can be taken is taken
FairSpec == Init /\ [][Next]_vars /\ WF_vars(Next)

(***************************************************************************)
(* Properties.                                                             *)
(***************************************************************************)
\* the analysis of the current file has passed format detection
Detected == pc \in {"dimensions", "block_stats", "metadata", "worldedit_metadata",
                    "residuals", "write_log", "returned"}
            /\ "format" \in result.present

Variants == <<"modern_worldedit", "modern_worldedit_nested", "modern_alternate",
              "classic_worldedit", "litematica", "unknown">>

\* the six probes of the detector, as conditions on the set of keys of the
\* root and the kind of its Blocks entry
Probes(sch) ==
  LET K == KeySet(sch)
  IN << {"Palette", "BlockData"} \subseteq K,
        "Blocks" \in K /\ Item(sch, "Blocks").kind = "compound"
                       /\ "Palette" \in KeySet(Item(sch, "Blocks")),
        "BlockData" \in K \/ "blocks" \in K,
        {"Blocks", "Data"} \subseteq K,
        "Regions" \in K,
        TRUE >>

FirstMatch(sch) ==
  Variants[CHOOSE k \in 1..6 : Probes(sch)[k] /\ \A j \in 1..(k - 1) : ~Probes(sch)[j]]

\* C1: once the format of a root compound is detected it is the variant of
\* the first probe, in the documented order, that the root's key set (and
\* the kind of Blocks) satisfies, whatever the order of the keys
C1_FirstMatchingProbe ==
  (Detected /\ isinstance_dict(schematic)) =>
     /\ result.format = FirstMatch(schematic)
     /\ format_type = result.format
     /\ \E k \in 1..6 : result.format = Variants[k]

\* a root that satisfies probes 2 and 3 at once is detected as nested
C1_Witness ==
  /\ Detected
  /\ result.format = "modern_worldedit_nested"
  /\ safe_check(schematic, "BlockData")
  /\ safe_check(schematic, "blocks")

\* the value of a dimension as the claim reads it: capitalised key, then
\* lowercase key, then 0
ClaimedDimension(sch, upper, lower) ==
  IF upper \in KeySet(sch) THEN Item(sch, upper).n
  ELSE IF lower \in KeySet(sch) THEN Item(sch, lower).n
  ELSE 0

IntegerDimensions(sch) ==
  \A k \in {"Width", "width", "Height", "height", "Length", "length"} :
     k \in KeySet(sch) => Item(sch, k).kind = "int"

\* C2: for integer dimensions the volume is the product when all three are
\* positive, 0 when one is 0 or absent, never negative, and the stage does
\* not raise
C2_Volume ==
  (/\ Detected /\ pc # "dimensions"
   /\ format_type # "litematica"
   /\ isinstance_dict(schematic)
   /\ IntegerDimensions(schematic)) =>
     LET w == ClaimedDimension(schematic, "Width", "width")
         h == ClaimedDimension(schematic, "Height", "height")
         l == ClaimedDimension(schematic, "Length", "length")
         v == result.dimensions.total_volume
     IN /\ "dimensions" \in result.present
        /\ (w > 0 /\ h > 0 /\ l > 0) => v = w * h * l
        /\ (w = 0 \/ h = 0 \/ l = 0) => v = 0
        /\ v >= 0

\* the keys the detected variant's probe matched and its extraction reads
ProbeKeys(fmt) ==
  CASE fmt = "modern_worldedit" -> {"Palette", "BlockData"}
    [] fmt = "modern_worldedit_nested" -> {"Blocks"}
    [] fmt = "modern_alternate" -> {"BlockData", "blocks"}
    [] fmt = "classic_worldedit" -> {"Blocks", "Data"}
    [] fmt = "litematica" -> {"Regions"}
    [] OTHER -> {}

ExtractionKeys(sch, fmt) ==
  (IF fmt = "litematica" THEN {"Regions"}
   ELSE {"Width", "width", "Height", "height", "Length", "length"})
  \cup (IF startswith_modern_worldedit(fmt) /\ HasPalette(sch)
        THEN {"Palette", "BlockData"} ELSE {})
  \cup (IF fmt = "classic_worldedit"
        THEN {"Blocks", "Data", "TileEntities", "Entities"} ELSE {})

ConsumedKeys(sch, fmt) == (ProbeKeys(fmt) \cup ExtractionKeys(sch, fmt)) \cap KeySet(sch)

\* the analysis of the current file went through every stage without raising
Completed == pc \in {"write_log", "returned"} /\ "error" \notin result.present

\* C3: after the residual pass, consumed keys, residual keys and Metadata
\* together are all the keys of the root
C3_EveryKeyAccounted ==
  Completed =>
     ConsumedKeys(schematic, format_type)
       \cup {result.additional_nbt_keys[j] : j \in 1..Len(result.additional_nbt_keys)}
       \cup ({"Metadata"} \cap KeySet(schematic))
     = KeySet(schematic)

\* the entries of the listing that are files with a supported suffix
Supported(listing) ==
  {k \in 1..Len(listing) :
     listing[k].is_file /\ Lower(listing[k].ext) \in {".schem", ".schematic", ".litematic"}}

\* C4: when process_directory ends, results holds one Result per supported
\* file of the listing, in listing order
C4_OneResultPerFile ==
  pc \in {"done", "failed"} =>
     /\ {results[j].file_name : j \in 1..Len(results)} = Supported(dir)
     /\ Len(results) = Cardinality(Supported(dir))
     /\ \A j \in 1..Len(results), k \in 1..Len(results) :
           j < k => results[j].file_name < results[k].file_name

\* the container of file f is read but cannot be decoded
DecodeFails(f) ==
  /\ f.readable
  /\ Len(f.head) >= 2
  /\ \/ f.head[1] = GzipMagic0 /\ f.head[2] = GzipMagic1 /\ ~f.gunzip_ok
     \/ ~f.parse_ok

ExtractionFields == {"format", "dimensions", "regions", "block_stats", "metadata",
                     "worldedit_metadata", "additional_nbt_keys"}

DecodeErrorResult(r) ==
  /\ "error" \in r.present
  /\ r.error \in {"Error decompressing file", "Error parsing NBT data"}
  /\ r.present \cap ExtractionFields = {}

\* C5: a file whose container cannot be decoded gets a Result with error
\* set and no field of any extraction stage, its report holds the
\* decode-error line, and no extraction stage runs for it
C5_DecodeFailure ==
  /\ \A j \in 1..Len(results) :
        DecodeFails(dir[results[j].file_name]) => DecodeErrorResult(results[j])
  /\ (pc \notin {"list", "loop", "done", "failed"} /\ DecodeFails(current)) =>
        /\ pc \in {"load", "returned"}
        /\ pc = "returned" =>
              /\ DecodeErrorResult(result)
              /\ \E j \in 1..Len(output) : output[j] = result.error

\* a file without the gzip magic whose bytes are no valid tree has returned
C5_Witness ==
  /\ pc = "returned"
  /\ DecodeFails(current)
  /\ ~is_gzipped(current.head)
  /\ result.compression = "not gzipped"

\* C6: a decoded root compound without Palette, Blocks and Regions gets
\* format unknown, no error, and all its keys as residual keys
C6_UnrecognizedRoot ==
  (/\ isinstance_dict(schematic)
   /\ KeySet(schematic) \cap {"Palette", "Blocks", "Regions"} = {}) =>
     /\ Detected => result.format = "unknown"
     /\ pc = "returned" =>
           /\ "error" \notin result.present
           /\ "additional_nbt_keys" \in result.present
           /\ result.additional_nbt_keys = Keys(schematic)

\* C6 as amended: the same for a non-empty root compound that has none of
\* Palette, BlockData, Blocks, blocks, Data, Regions and Metadata and whose
\* dimension entries are integers
C6_UnrecognizedRootAmended ==
  (/\ pc = "returned"
   /\ isinstance_dict(schematic)
   /\ KeySet(schematic) # {}
   /\ KeySet(schematic) \cap {"Palette", "BlockData", "Blocks", "blocks", "Data",
                              "Regions", "Metadata"} = {}
   /\ IntegerDimensions(schematic)) =>
     /\ result.format = "unknown"
     /\ "error" \notin result.present
     /\ "additional_nbt_keys" \in result.present
     /\ result.additional_nbt_keys = Keys(schematic)

\* a root of dimension keys only has returned as unknown
C6_Witness ==
  /\ pc = "returned"
  /\ isinstance_dict(schematic)
  /\ KeySet(schematic) = {"Width", "height", "Length"}
  /\ result.format = "unknown"
  /\ Len(result.additional_nbt_keys) = 3

\* the Palette compound of a modern WorldEdit variant
VariantPalette(sch, fmt) ==
  IF fmt = "modern_worldedit" THEN Item(sch, "Palette")
  ELSE Item(Item(sch, "Blocks"), "Palette")

\* C7: for both modern WorldEdit variants block_stats counts and lists
\* every entry of the variant's Palette compound, and block_data_size is
\* the length of BlockData when it has one
C7_PaletteDump ==
  (/\ Detected /\ pc \notin {"dimensions", "block_stats"}
   /\ "error" \notin result.present
   /\ startswith_modern_worldedit(format_type)
   /\ VariantPalette(schematic, format_type).kind = "compound") =>
     LET entries == VariantPalette(schematic, format_type).kids
     IN /\ "block_stats" \in result.present
        /\ result.block_stats.total_block_types = Len(entries)
        /\ result.block_stats.blocks =
              [j \in 1..Len(entries) |-> [name |-> entries[j][1], id |-> entries[j][2]]]
        /\ ("BlockData" \in KeySet(schematic)
              /\ Item(schematic, "BlockData").kind \in {"bytearray", "list"}) =>
              /\ "block_data_size" \in result.present
              /\ result.block_data_size = Item(schematic, "BlockData").n

\* the region tags whose Size and Position, when present, are compounds and
\* whose BlockEntities and Entities, when present, are lists
WellTypedRegion(region) ==
  /\ \A k \in {"Size", "Position"} :
        safe_check(region, k) => Item(region, k).kind = "compound"
  /\ \A k \in {"BlockEntities", "Entities"} :
        safe_check(region, k) => Item(region, k).kind = "list"

WellTypedRegions(sch) ==
  /\ safe_check(sch, "Regions")
  /\ Item(sch, "Regions").kind = "compound"
  /\ \A j \in 1..Len(Item(sch, "Regions").kids) :
        WellTypedRegion(Item(sch, "Regions").kids[j][2])

CountFields == {<<"BlockEntities", "block_entities_count">>, <<"Entities", "entities_count">>}

ClaimedAxis(c, axis) ==
  IF axis \in KeySet(c) THEN IntToStr(Item(c, axis).n) ELSE "?"

ClaimedCoordinates(c) ==
  ClaimedAxis(c, "x") \o " x " \o ClaimedAxis(c, "y") \o " x " \o ClaimedAxis(c, "z")

\* the compounds format_coordinates has been applied to and what was
\* recorded for each: Metadata.EnclosingSize and Metadata.WorldEdit.Origin
Formatted ==
  (IF /\ "metadata" \in result.present
      /\ isinstance_dict(Item(schematic, "Metadata"))
      /\ safe_check(Item(schematic, "Metadata"), "EnclosingSize")
      /\ isinstance_dict(Item(Item(schematic, "Metadata"), "EnclosingSize"))
   THEN {<<Item(Item(schematic, "Metadata"), "EnclosingSize"),
           Lookup(result.metadata, "EnclosingSize")>>}
   ELSE {})
  \cup
  (IF /\ "worldedit_metadata" \in result.present
      /\ isinstance_dict(Item(Item(schematic, "Metadata"), "WorldEdit"))
      /\ safe_check(Item(Item(schematic, "Metadata"), "WorldEdit"), "Origin")
      /\ isinstance_dict(Item(Item(Item(schematic, "Metadata"), "WorldEdit"), "Origin"))
   THEN {<<Item(Item(Item(schematic, "Metadata"), "WorldEdit"), "Origin"),
           Lookup(result.worldedit_metadata, "Origin")>>}
   ELSE {})

ClaimedTimestamp(value) ==
  IF value.kind = "long"
  THEN value.s \o " (error formatting date)"
  ELSE IntToStr(value.n) \o " (" \o strftime(value.n) \o ")"

\* the rule of the claim for an entry of Metadata other than WorldEdit
ClaimedRender(key, value) ==
  IF key = "EnclosingSize" /\ value.kind = "compound"
    THEN RenderedString(format_coordinates(value))
  ELSE IF key \in {"TimeCreated", "TimeModified"}
          /\ value.kind \in {"int", "long"}
    THEN RenderedString(ClaimedTimestamp(value))
  ELSE IF value.kind = "compound"
    THEN RenderedKeys(Keys(value))
  ELSE RenderedString(safe_to_string(value))

\* the rule as amended: a TimeCreated or TimeModified entry goes to the
\* timestamp formatter whatever its value, which gives the plain string
\* form of a value that is no number, a compound included
AmendedRender(key, value) ==
  IF key = "EnclosingSize" /\ value.kind = "compound"
    THEN RenderedString(format_coordinates(value))
  ELSE IF key \in {"TimeCreated", "TimeModified"}
    THEN RenderedString(IF value.kind \in {"int", "long"}
                        THEN ClaimedTimestamp(value)
                        ELSE safe_to_string(value))
  ELSE IF value.kind = "compound"
    THEN RenderedKeys(Keys(value))
  ELSE RenderedString(safe_to_string(value))

\* the root Metadata pass has run over a Metadata compound
MetadataPassed ==
  "metadata" \in result.present /\ isinstance_dict(Item(schematic, "Metadata"))

\* C10: every Metadata entry but WorldEdit is recorded by the first rule of
\* the claim that applies, and WorldEdit is not recorded
C10_MetadataRules ==
  MetadataPassed =>
     LET entries == Item(schematic, "Metadata").kids
     IN /\ Names(result.metadata) = KeySet(Item(schematic, "Metadata")) \ {"WorldEdit"}
        /\ \A j \in 1..Len(entries) :
              entries[j][1] # "WorldEdit" =>
                 Lookup(result.metadata, entries[j][1])
                    = ClaimedRender(entries[j][1], entries[j][2])

\* C10 as amended: the same with the amended rule for TimeCreated and
\* TimeModified
C10_MetadataRulesAmended ==
  MetadataPassed =>
     LET entries == Item(schematic, "Metadata").kids
     IN /\ Names(result.metadata) = KeySet(Item(schematic, "Metadata")) \ {"WorldEdit"}
        /\ \A j \in 1..Len(entries) :
              entries[j][1] # "WorldEdit" =>
                 Lookup(result.metadata, entries[j][1])
                    = AmendedRender(entries[j][1], entries[j][2])

\* a Metadata with a compound TimeCreated, a numeric TimeModified, a plain
\* compound and a WorldEdit entry has been recorded
C10_Witness ==
  /\ MetadataPassed
  /\ {"TimeCreated", "TimeModified", "Extra", "WorldEdit", "EnclosingSize"}
        \subseteq KeySet(Item(schematic, "Metadata"))
  /\ Item(Item(schematic, "Metadata"), "TimeCreated").kind = "compound"
  /\ Lookup(result.metadata, "TimeCreated").tag = "str"
  /\ Lookup(result.metadata, "TimeModified").str = "0 (1970-01-01 00:00:00)"
  /\ Lookup(result.metadata, "Extra") = RenderedKeys(<<"p", "q">>)

\* the stages of the try block after the tree is decoded, in their order;
\* the end of the try block is the log write
ExtractionStages == <<"detect", "dimensions", "block_stats", "metadata",
                      "worldedit_metadata", "residuals", "write_log">>

StageIndex(p) == CHOOSE k \in 1..Len(ExtractionStages) : ExtractionStages[k] = p

InExtraction == pc \in {ExtractionStages[k] : k \in 1..(Len(ExtractionStages) - 1)}

\* the stage at pc ends on the stage that follows it with no error set, or
\* on the end of the run with the error set
NextStageOrError ==
  /\ "error" \notin result.present
  /\ \/ /\ pc' = ExtractionStages[StageIndex(pc) + 1]
        /\ "error" \notin result'.present
     \/ /\ pc' = "write_log"
        /\ "error" \in result'.present
        /\ result'.error # ""

\* the palette of a modern variant has a length and no items()
PaletteIterationFails ==
  /\ pc = "block_stats"
  /\ startswith_modern_worldedit(format_type)
  /\ HasPalette(schematic)
  /\ hasattr_len(PaletteOf(schematic))
  /\ ~isinstance_dict(PaletteOf(schematic))

\* the Blocks of the classic variant have neither a shape nor a length
BlockCountUndeterminable ==
  /\ pc = "block_stats"
  /\ format_type = "classic_worldedit"
  /\ safe_check(schematic, "Blocks")
  /\ ~hasattr_len(Item(schematic, "Blocks"))

\* a timestamp of the root Metadata is a number datetime cannot format
DateFormattingFailure(key) ==
  /\ pc = "metadata"
  /\ safe_check(schematic, "Metadata")
  /\ isinstance_dict(Item(schematic, "Metadata"))
  /\ key \in KeySet(Item(schematic, "Metadata"))
  /\ DateFormattingFails(Item(Item(schematic, "Metadata"), key))

\* a failure local to a section is recorded in place, the next stage
\* follows and no error is set
SectionLocalRecorded ==
  /\ PaletteIterationFails =>
        /\ pc' = "metadata"
        /\ "error" \notin result'.present
        /\ "block_stats" \in result'.present
        /\ result'.block_stats.blocks = <<>>
        /\ \E j \in 1..Len(output') : output'[j] = "Error listing block types"
  /\ BlockCountUndeterminable =>
        /\ pc' = "metadata"
        /\ "error" \notin result'.present
        /\ "block_stats" \in result'.present
        /\ result'.block_stats.total_blocks = "unknown"
  /\ \A key \in {"TimeCreated", "TimeModified"} :
        DateFormattingFailure(key) =>
           /\ pc' = "worldedit_metadata"
           /\ "error" \notin result'.present
           /\ Lookup(result'.metadata, key) = RenderedString(
                 Item(Item(schematic, "Metadata"), key).s
                    \o " (error formatting date)")

\* C11: after decoding the stages run in their fixed order, each once; a
\* failure local to a section is recorded in place with no error set and
\* the next stage follows; later stages are skipped only with the error
\* set; and every run that reaches detection reaches the end of the try block
C11_StagesInOrder ==
  /\ [][InExtraction => NextStageOrError /\ SectionLocalRecorded]_vars
  /\ (pc = "detect") ~> (pc = "write_log")

\* a run whose TimeCreated could not be formatted as a date has recorded
\* the note in its place and reached the end of the try block with no error
C11_Witness ==
  /\ pc = "write_log"
  /\ "error" \notin result.present
  /\ MetadataPassed
  /\ "TimeCreated" \in KeySet(Item(schematic, "Metadata"))
  /\ DateFormattingFails(Item(Item(schematic, "Metadata"), "TimeCreated"))
  /\ Lookup(result.metadata, "TimeCreated")
        = RenderedString("4611686018427387904 (error formatting date)")
  /\ "additional_nbt_keys" \in result.present

====
